---- MODULE Spec2Model ----
\* Exact inference by enumeration over the Cloudy / Sprinkler / Rain /
\* WetGrass network of bayesian_network.py.
\*
\* The recursion of enumerate_all and the loop of enumeration_ask are run as a
\* call stack over a heap of dict objects, so that copying and aliasing of the
\* evidence dicts is part of the model.  Every number carries two components:
\* f, the Python float the program computes (IEEE-754 binary64), and x, the
\* rational the same operations give in exact arithmetic.
EXTENDS Integers, Sequences, FiniteSets, TLC

\* ---------------------------------------------------------------------
\* Natural numbers of arbitrary size: little-endian sequences of limbs in
\* base 2^14, without leading (most significant) zero limbs.
\* ---------------------------------------------------------------------
Base == 2^14

Min(a, b) == IF a < b THEN a ELSE b

RECURSIVE BTrim(_)
BTrim(s) ==
  IF s = <<>> THEN <<>>
  ELSE IF s[Len(s)] = 0 THEN BTrim(SubSeq(s, 1, Len(s) - 1)) ELSE s

RECURSIVE BCarry(_, _)
BCarry(s, c) ==
  IF s = <<>> THEN (IF c = 0 THEN <<>> ELSE <<c % Base>> \o BCarry(<<>>, c \div Base))
  ELSE LET t == Head(s) + c IN <<t % Base>> \o BCarry(Tail(s), t \div Base)

BLimb(s, i) == IF i >= 1 /\ i <= Len(s) THEN s[i] ELSE 0

BAdd(a, b) ==
  LET n == IF Len(a) > Len(b) THEN Len(a) ELSE Len(b)
  IN BTrim(BCarry([i \in 1..n |-> BLimb(a, i) + BLimb(b, i)], 0))

RECURSIVE BBorrow(_, _, _)
BBorrow(a, b, c) ==
  IF a = <<>> THEN <<>>
  ELSE LET t == Head(a) - (IF b = <<>> THEN 0 ELSE Head(b)) - c
       IN IF t < 0 THEN <<t + Base>> \o BBorrow(Tail(a), IF b = <<>> THEN <<>> ELSE Tail(b), 1)
          ELSE <<t>> \o BBorrow(Tail(a), IF b = <<>> THEN <<>> ELSE Tail(b), 0)

\* a - b for a >= b
BSub(a, b) == BTrim(BBorrow(a, b, 0))

\* a * k for 0 <= k <= Base
BMulSmall(a, k) == BTrim(BCarry([i \in 1..Len(a) |-> a[i] * k], 0))

BShiftLimbs(a, n) == IF a = <<>> THEN <<>> ELSE [i \in 1..n |-> 0] \o a

RECURSIVE BMulFrom(_, _, _)
BMulFrom(a, b, j) ==
  IF j > Len(b) THEN <<>>
  ELSE BAdd(BShiftLimbs(BMulSmall(a, b[j]), j - 1), BMulFrom(a, b, j + 1))

BMul(a, b) == BMulFrom(a, b, 1)

\* a * 2^n
BShl(a, n) == BShiftLimbs(BMulSmall(a, 2^(n % 14)), n \div 14)

\* a \div 2^n
BShr(a, n) ==
  LET k == n \div 14
      r == n % 14
      d == IF k >= Len(a) THEN <<>> ELSE SubSeq(a, k + 1, Len(a))
  IN BTrim([i \in 1..Len(d) |-> (d[i] \div 2^r) + (BLimb(d, i + 1) % 2^r) * 2^(14 - r)])

\* a % 2^n
BLow(a, n) ==
  LET k == n \div 14
      r == n % 14
  IN IF k >= Len(a) THEN a
     ELSE BTrim(SubSeq(a, 1, k) \o <<a[k + 1] % 2^r>>)

RECURSIVE BCmpFrom(_, _, _)
BCmpFrom(a, b, i) ==
  IF i = 0 THEN 0
  ELSE IF a[i] > b[i] THEN 1
  ELSE IF a[i] < b[i] THEN -1
  ELSE BCmpFrom(a, b, i - 1)

\* sign of a - b
BCmp(a, b) ==
  IF Len(a) > Len(b) THEN 1
  ELSE IF Len(a) < Len(b) THEN -1
  ELSE BCmpFrom(a, b, Len(a))

RECURSIVE BitLen(_)
BitLen(n) == IF n = 0 THEN 0 ELSE 1 + BitLen(n \div 2)

BBitLen(a) == IF a = <<>> THEN 0 ELSE (Len(a) - 1) * 14 + BitLen(a[Len(a)])

BFromInt(n) == BTrim(BCarry(<<n>>, 0))

RECURSIVE BToIntFrom(_, _)
BToIntFrom(a, i) == IF i > Len(a) THEN 0 ELSE a[i] + Base * BToIntFrom(a, i + 1)

\* the value of a, for a < 2^31
BToInt(a) == BToIntFrom(a, 1)

\* ---------------------------------------------------------------------
\* Python floats: IEEE-754 binary64, round to nearest, ties to even.
\* A float is zero, [m |-> <<>>, e |-> 0], or m * 2^e with
\* 2^52 <= m < 2^53 (every value of the program is in [0, 1], so signs,
\* subnormals, infinities and NaN do not arise).
\* ---------------------------------------------------------------------
Precision == 53

FZero == [m |-> <<>>, e |-> 0]

FIsZero(a) == a.m = <<>>

\* the float nearest to N * 2^e, N > 0
FRound(N, e) ==
  LET L == BBitLen(N) IN
  IF L <= Precision THEN [m |-> BShl(N, Precision - L), e |-> e - (Precision - L)]
  ELSE LET s == L - Precision
           q == BShr(N, s)
           c == BCmp(BLow(N, s), BShl(<<1>>, s - 1))
           up == c > 0 \/ (c = 0 /\ q[1] % 2 = 1)
           q2 == IF up THEN BAdd(q, <<1>>) ELSE q
       IN IF BBitLen(q2) > Precision
          THEN [m |-> BShr(q2, 1), e |-> e + s + 1]
          ELSE [m |-> q2, e |-> e + s]

FFromInt(n) == IF n = 0 THEN FZero ELSE FRound(BFromInt(n), 0)

FMul(a, b) ==
  IF FIsZero(a) \/ FIsZero(b) THEN FZero
  ELSE FRound(BMul(a.m, b.m), a.e + b.e)

FAdd(a, b) ==
  IF FIsZero(a) THEN b
  ELSE IF FIsZero(b) THEN a
  ELSE LET e == Min(a.e, b.e)
       IN FRound(BAdd(BShl(a.m, a.e - e), BShl(b.m, b.e - e)), e)

\* sign of a - b
FCmp(a, b) ==
  IF FIsZero(a) THEN (IF FIsZero(b) THEN 0 ELSE -1)
  ELSE IF FIsZero(b) THEN 1
  ELSE LET e == Min(a.e, b.e)
       IN BCmp(BShl(a.m, a.e - e), BShl(b.m, b.e - e))

\* a - b for a >= b
FSub(a, b) ==
  IF FIsZero(b) THEN a
  ELSE LET e == Min(a.e, b.e)
           d == BSub(BShl(a.m, a.e - e), BShl(b.m, b.e - e))
       IN IF d = <<>> THEN FZero ELSE FRound(d, e)

\* <<floor(r * 2^n / d), (r * 2^n) % d>> for r < d and n <= 14, by shift and subtract
RECURSIVE BDivBits(_, _, _)
BDivBits(r, d, n) ==
  IF n = 0 THEN <<0, r>>
  ELSE LET r2 == BMulSmall(r, 2)
           bit == BCmp(r2, d) >= 0
           rest == BDivBits(IF bit THEN BSub(r2, d) ELSE r2, d, n - 1)
       IN <<(IF bit THEN 2^(n - 1) ELSE 0) + rest[1], rest[2]>>

\* <<the k limbs of floor(r * Base^k / d), whether a remainder is left>> for r < d
RECURSIVE BDivLimbs(_, _, _)
BDivLimbs(r, d, k) ==
  IF k = 0 THEN <<<<>>, r # <<>>>>
  ELSE LET top == BDivBits(r, d, 14)
           rest == BDivLimbs(top[2], d, k - 1)
       IN <<Append(rest[1], top[1]), rest[2]>>

\* a / b for b # 0
FDiv(a, b) ==
  IF FIsZero(a) THEN FZero
  ELSE LET first == BCmp(a.m, b.m) >= 0
           qr == BDivLimbs(IF first THEN BSub(a.m, b.m) ELSE a.m, b.m, 4)
           q == IF first THEN Append(qr[1], 1) ELSE BTrim(qr[1])
           sticky == IF qr[2] THEN <<1>> ELSE <<>>
       IN FRound(BAdd(BMulSmall(q, 2), sticky), a.e - b.e - 4 * 14 - 1)

\* the integer nearest to a * 10^digits (ties to even), as "%.<digits>f" prints it
Scaled(a, digits) ==
  IF FIsZero(a) THEN 0
  ELSE LET N == BMul(a.m, BFromInt(10^digits))
           s == 0 - a.e
           q == BShr(N, s)
           c == BCmp(BLow(N, s), BShl(<<1>>, s - 1))
           up == c > 0 \/ (c = 0 /\ BLimb(q, 1) % 2 = 1)
       IN BToInt(IF up THEN BAdd(q, <<1>>) ELSE q)

\* ---------------------------------------------------------------------
\* Exact rationals [n, d] in lowest terms, 0 <= n, 0 < d.
\* ---------------------------------------------------------------------
RECURSIVE GCD(_, _)
GCD(a, b) == IF b = 0 THEN a ELSE GCD(b, a % b)

Reduce(n, d) == LET g == GCD(n, d) IN [n |-> n \div g, d |-> d \div g]

RMul(a, b) == Reduce(a.n * b.n, a.d * b.d)

\* the numerators of a and b over their least common denominator
RCommon(a, b) ==
  LET g == GCD(a.d, b.d)
  IN [an |-> a.n * (b.d \div g), bn |-> b.n * (a.d \div g), d |-> (a.d \div g) * b.d]

RAdd(a, b) == LET c == RCommon(a, b) IN Reduce(c.an + c.bn, c.d)

\* a - b for a >= b
RSub(a, b) == LET c == RCommon(a, b) IN Reduce(c.an - c.bn, c.d)

\* a / b for b # 0
RDiv(a, b) == LET c == RCommon(a, b) IN Reduce(c.an, c.bn)

\* ---------------------------------------------------------------------
\* Numbers of the program: the float and its exact counterpart.
\* ---------------------------------------------------------------------
\* the decimal literal n/d: the nearest float, and the rational itself
Lit(n, d) == [f |-> FDiv(FFromInt(n), FFromInt(d)), x |-> Reduce(n, d)]

VMul(a, b) == [f |-> FMul(a.f, b.f), x |-> RMul(a.x, b.x)]

VAdd(a, b) == [f |-> FAdd(a.f, b.f), x |-> RAdd(a.x, b.x)]

VSub(a, b) == [f |-> FSub(a.f, b.f), x |-> RSub(a.x, b.x)]

VDiv(a, b) == [f |-> FDiv(a.f, b.f), x |-> RDiv(a.x, b.x)]

\* the test "total == 0" on the float
VIsZero(a) == FIsZero(a.f)

Lit_1_0 == [f |-> [m |-> <<0, 0, 0, 1024>>, e |-> -52], x |-> [n |-> 1, d |-> 1]]

Lit_0_0 == [f |-> FZero, x |-> [n |-> 0, d |-> 1]]

Lit_0_5 == [f |-> [m |-> <<0, 0, 0, 1024>>, e |-> -53], x |-> [n |-> 1, d |-> 2]]

Lit_0_1 == [f |-> [m |-> <<6554, 9830, 6553, 1638>>, e |-> -56], x |-> [n |-> 1, d |-> 10]]

Lit_0_8 == [f |-> [m |-> <<6554, 9830, 6553, 1638>>, e |-> -53], x |-> [n |-> 4, d |-> 5]]

Lit_0_2 == [f |-> [m |-> <<6554, 9830, 6553, 1638>>, e |-> -55], x |-> [n |-> 1, d |-> 5]]

Lit_0_99 == [f |-> [m |-> <<1966, 11141, 8519, 2027>>, e |-> -53], x |-> [n |-> 99, d |-> 100]]

Lit_0_9 == [f |-> [m |-> <<3277, 13107, 3276, 1843>>, e |-> -53], x |-> [n |-> 9, d |-> 10]]

\* the float literals of the source, written out limb by limb, are the nearest floats
LiteralsAreNearest ==
  /\ Lit_1_0 = Lit(1, 1)
  /\ Lit_0_0 = Lit(0, 1)
  /\ Lit_0_5 = Lit(5, 10)
  /\ Lit_0_1 = Lit(1, 10)
  /\ Lit_0_8 = Lit(8, 10)
  /\ Lit_0_2 = Lit(2, 10)
  /\ Lit_0_99 = Lit(99, 100)
  /\ Lit_0_9 = Lit(9, 10)

\* ---------------------------------------------------------------------
\* dicts: functions from a finite set of keys
\* ---------------------------------------------------------------------
EmptyDict == <<>>

\* d.get(k, default)
Get(d, k, default) == IF k \in DOMAIN d THEN d[k] ELSE default

\* d.setdefault(k, v) in place of d[k] = v: an entry already there is kept
PutIfAbsent(d, k, v) == [y \in DOMAIN d \cup {k} |-> IF y \in DOMAIN d THEN d[y] ELSE v]

\* the content of d after d[k] = v
Put(d, k, v) == [y \in DOMAIN d \cup {k} |-> IF y = k THEN v ELSE d[y]]

Remove(d, k) == [y \in DOMAIN d \ {k} |-> d[y]]

\* ---------------------------------------------------------------------
\* The network
\* ---------------------------------------------------------------------
\* an order of the nodes that puts a child before its parents
NODES_child_first == <<"WetGrass", "Cloudy", "Sprinkler", "Rain">>

NODES == <<"Cloudy", "Sprinkler", "Rain", "WetGrass">>

NodeSet == {NODES[i] : i \in 1..Len(NODES)}

p_cloudy(parents) == Lit_0_5

\* p_sprinkler with the two branches exchanged
p_sprinkler_swapped(parents) == IF Get(parents, "Cloudy", FALSE) THEN Lit_0_5 ELSE Lit_0_1

p_sprinkler(parents) == IF Get(parents, "Cloudy", FALSE) THEN Lit_0_1 ELSE Lit_0_5

p_rain(parents) == IF Get(parents, "Cloudy", FALSE) THEN Lit_0_8 ELSE Lit_0_2

\* p_wetgrass with 0.9 where both parents are true
p_wetgrass_flat(parents) ==
  IF Get(parents, "Sprinkler", FALSE) \/ Get(parents, "Rain", FALSE) THEN Lit_0_9 ELSE Lit_0_0

p_wetgrass(parents) ==
  LET s == Get(parents, "Sprinkler", FALSE)
      r == Get(parents, "Rain", FALSE)
  IN IF s /\ r THEN Lit_0_99
     ELSE IF s /\ ~r THEN Lit_0_9
     ELSE IF ~s /\ r THEN Lit_0_9
     ELSE Lit_0_0

BAYES_NET ==
  [Cloudy |-> [parents |-> <<>>, cpt |-> "p_cloudy"],
   Sprinkler |-> [parents |-> <<"Cloudy">>, cpt |-> "p_sprinkler"],
   Rain |-> [parents |-> <<"Cloudy">>, cpt |-> "p_rain"],
   WetGrass |-> [parents |-> <<"Sprinkler", "Rain">>, cpt |-> "p_wetgrass"]]

\* the call cpt(parent_vals) of the function the table names
Cpt(name, parent_vals) ==
  CASE name = "p_cloudy" -> p_cloudy(parent_vals)
    [] name = "p_sprinkler" -> p_sprinkler(parent_vals)
    [] name = "p_rain" -> p_rain(parent_vals)
    [] name = "p_wetgrass" -> p_wetgrass(parent_vals)

ParentsOf(node) == {BAYES_NET[node].parents[i] : i \in 1..Len(BAYES_NET[node].parents)}

\* outcomes of a call: a value, or the exception that ends it
Ok(v) == [exc |-> "none", v |-> v]

KeyError == [exc |-> "KeyError"]

ZeroDivisionError == [exc |-> "ZeroDivisionError"]

Failed(r) == r.exc # "none"

\* p_true if value else 1 - p_true
ValueProb(value, p_true) == IF value THEN p_true ELSE VSub(Lit_1_0, p_true)

\* the lookups BAYES_NET[node] and assignment[p] that raise KeyError
LookupFails(node, assignment) ==
  \/ node \notin DOMAIN BAYES_NET
  \/ \E p \in ParentsOf(node) : p \notin DOMAIN assignment

\* prob_of reading the parents with assignment.get(p, False)
prob_of_default(node, value, assignment) ==
  IF node \notin DOMAIN BAYES_NET THEN KeyError
  ELSE LET parent_vals == [p \in ParentsOf(node) |-> Get(assignment, p, FALSE)]
           p_true == Cpt(BAYES_NET[node].cpt, parent_vals)
       IN Ok(ValueProb(value, p_true))

prob_of(node, value, assignment) ==
  IF LookupFails(node, assignment) THEN KeyError
  ELSE LET parent_vals == [p \in ParentsOf(node) |-> assignment[p]]
           p_true == Cpt(BAYES_NET[node].cpt, parent_vals)
       IN Ok(ValueProb(value, p_true))

RECURSIVE JointLoop(_, _, _)
JointLoop(p, nodes, assignment) ==
  IF nodes = <<>> THEN Ok(p)
  ELSE LET node == Head(nodes) IN
       IF node \notin DOMAIN assignment THEN KeyError
       ELSE LET q == prob_of(node, assignment[node], assignment)
            IN IF Failed(q) THEN q
               ELSE JointLoop(VMul(p, q.v), Tail(nodes), assignment)

\* joint_prob with a loop that leaves out the first node
joint_prob_from_second(assignment) == JointLoop(Lit_1_0, Tail(NODES), assignment)

joint_prob(assignment) == JointLoop(Lit_1_0, NODES, assignment)

\* total = p * ret in place of total += p * ret
AccumulateOverwrite(total, p, ret) == VMul(p, ret)

\* total += p * ret
Accumulate(total, p, ret) == VAdd(total, VMul(p, ret))

\* dict(evidence) followed by [key] = val, on dict contents
Extended(evidence, key, val) == Put(evidence, key, val)

RECURSIVE enumerate_all(_, _)
enumerate_all(variables, evidence) ==
  IF variables = <<>> THEN Ok(Lit_1_0)
  ELSE LET first == Head(variables)
           rest == Tail(variables)
       IN IF first \in DOMAIN evidence
          THEN LET p == prob_of(first, evidence[first], evidence) IN
               IF Failed(p) THEN p
               ELSE LET r == enumerate_all(rest, evidence)
                    IN IF Failed(r) THEN r ELSE Ok(VMul(p.v, r.v))
          ELSE LET eT == Extended(evidence, first, TRUE)
                   pT == prob_of(first, TRUE, eT)
               IN IF Failed(pT) THEN pT
                  ELSE LET rT == enumerate_all(rest, eT) IN
                       IF Failed(rT) THEN rT
                       ELSE LET eF == Extended(evidence, first, FALSE)
                                pF == prob_of(first, FALSE, eF)
                            IN IF Failed(pF) THEN pF
                               ELSE LET rF == enumerate_all(rest, eF) IN
                                    IF Failed(rF) THEN rF
                                    ELSE Ok(Accumulate(Accumulate(Lit_0_0, pT.v, rT.v),
                                                       pF.v, rF.v))

\* a / b, which raises ZeroDivisionError for b == 0
Quotient(a, b) == IF VIsZero(b) THEN ZeroDivisionError ELSE Ok(VDiv(a, b))

\* the end of enumeration_ask without the test total == 0
NormalizeUnguarded(Q) ==
  LET total == VAdd(Q[TRUE], Q[FALSE])
      t == Quotient(Q[TRUE], total)
      f == Quotient(Q[FALSE], total)
  IN IF Failed(t) THEN t
     ELSE IF Failed(f) THEN f
     ELSE Ok([b \in BOOLEAN |-> IF b THEN t.v ELSE f.v])

\* the end of enumeration_ask: the distribution returned for the unnormalized Q
Normalize(Q) ==
  LET total == VAdd(Q[TRUE], Q[FALSE])
  IN IF VIsZero(total) THEN Ok([b \in BOOLEAN |-> Lit_0_0])
     ELSE LET t == Quotient(Q[TRUE], total) IN
          IF Failed(t) THEN t
          ELSE LET f == Quotient(Q[FALSE], total) IN
               IF Failed(f) THEN f
               ELSE Ok([b \in BOOLEAN |-> IF b THEN t.v ELSE f.v])

enumeration_ask(query, evidence) ==
  LET qT == enumerate_all(NODES, Extended(evidence, query, TRUE)) IN
  IF Failed(qT) THEN qT
  ELSE LET qF == enumerate_all(NODES, Extended(evidence, query, FALSE)) IN
       IF Failed(qF) THEN qF
       ELSE Normalize([b \in BOOLEAN |-> IF b THEN qT.v ELSE qF.v])

\* ---------------------------------------------------------------------
\* The calls, as a stack of frames over a heap of dict objects
\* ---------------------------------------------------------------------
\* how many times the caller makes its call
MaxCalls == 2

\* names that are not variables of the network
UnknownNames == {"Unknown"}

Names == NodeSet \cup UnknownNames

\* the dicts from some of the keys to booleans
Dicts(keys) == UNION {[S -> BOOLEAN] : S \in SUBSET keys}

\* the orders of the nodes
Orders ==
  {p \in [1..Len(NODES) -> NodeSet] : \A i, j \in 1..Len(NODES) : p[i] = p[j] => i = j}

VARIABLES
  op,         \* the function the caller calls: "ask", "enum" or "joint"
  query,      \* the query argument of enumeration_ask
  variables,  \* the list argument of enumerate_all
  given,      \* the content of the caller's dict when the caller built it
  heap,       \* the dict objects; heap[1] is the caller's dict
  stack,      \* the frames of the calls in progress, outermost first
  result,     \* the outcome of the caller's latest call
  calls,      \* the calls the caller has made
  first,      \* the outcome of the caller's first call
  prob_call   \* the arguments of the latest prob_of call of the call in progress

vars == <<op, query, variables, given, heap, stack, result, calls, first, prob_call>>

None == [exc |-> "pending"]

NoCall == [node |-> "", value |-> FALSE, assignment |-> EmptyDict]

\* new = d in place of new = dict(d): the same object under a second name
dict_alias(h, id) == [heap |-> h, id |-> id]

\* dict(d): a new object with the content of object id
dict_copy(h, id) == [heap |-> Append(h, h[id]), id |-> Len(h) + 1]

\* a frame at its first statement; ev is the object of its evidence argument
\* and snap the content of that object at the call
Frame(fn, vs, ev, snap) ==
  [fn |-> fn, pc |-> "entry", cont |-> "", vars |-> vs, ev |-> ev, snap |-> snap,
   val |-> TRUE, p |-> Lit_0_0, total |-> Lit_0_0, Q |-> EmptyDict, ret |-> Lit_0_0]

Top == stack[Len(stack)]

Done == stack = <<>> /\ calls > 0

Init ==
  /\ \/ /\ op = "ask"
        /\ query \in Names
        /\ variables = NODES
        /\ given \in Dicts(Names)
     \/ /\ op = "enum"
        /\ query = ""
        /\ variables \in Orders
        /\ given \in Dicts(NodeSet)
     \/ /\ op = "joint"
        /\ query = ""
        /\ variables = NODES
        /\ given \in [NodeSet -> BOOLEAN]
  /\ heap = <<given>>
  /\ stack = <<>>
  /\ result = None
  /\ calls = 0
  /\ first = None
  /\ prob_call = NoCall

\* the outermost call ends with an outcome; its temporaries are released
Finish(outcome) ==
  /\ stack' = <<>>
  /\ result' = outcome
  /\ heap' = <<heap[1]>>
  /\ first' = IF calls = 1 THEN outcome ELSE first

\* an exception propagates through every frame to the caller
Raise(exception) == Finish(exception)

\* the top frame returns v to the frame below, or to the caller
Return(h, v) ==
  IF Len(stack) = 1
  THEN /\ stack' = <<>>
       /\ result' = Ok(v)
       /\ heap' = <<h[1]>>
       /\ first' = IF calls = 1 THEN Ok(v) ELSE first
  ELSE /\ stack' = [SubSeq(stack, 1, Len(stack) - 1) EXCEPT
                      ![Len(stack) - 1].ret = v,
                      ![Len(stack) - 1].pc = stack[Len(stack) - 1].cont]
       /\ heap' = h
       /\ UNCHANGED <<result, first>>

\* the caller calls enumeration_ask(query, evidence) or enumerate_all(variables, evidence)
Call ==
  /\ stack = <<>>
  /\ calls < MaxCalls
  /\ op \in {"ask", "enum"}
  /\ calls' = calls + 1
  /\ result' = None
  /\ prob_call' = NoCall
  /\ stack' = IF op = "ask"
              THEN <<[Frame("enumeration_ask", <<>>, 1, heap[1]) EXCEPT !.pc = "for"]>>
              ELSE <<Frame("enumerate_all", variables, 1, heap[1])>>
  /\ UNCHANGED <<op, query, variables, given, heap, first>>

\* the caller calls joint_prob(assignment)
JointProb ==
  /\ stack = <<>>
  /\ calls < MaxCalls
  /\ op = "joint"
  /\ calls' = calls + 1
  /\ result' = joint_prob(heap[1])
  /\ first' = IF calls = 0 THEN joint_prob(heap[1]) ELSE first
  /\ UNCHANGED <<op, query, variables, given, heap, stack, prob_call>>

\* enumeration_ask: extended = dict(evidence); extended[query] = val;
\* enumerate_all(NODES, extended)
AskExtend ==
  /\ stack # <<>>
  /\ Top.fn = "enumeration_ask"
  /\ Top.pc = "for"
  /\ LET n == Len(stack)
         c == dict_copy(heap, Top.ev)
         h == [c.heap EXCEPT ![c.id] = Put(@, query, Top.val)]
     IN /\ heap' = h
        /\ stack' = Append([stack EXCEPT ![n].pc = "call", ![n].cont = "store"],
                           Frame("enumerate_all", NODES, c.id, h[c.id]))
  /\ UNCHANGED <<op, query, variables, given, result, calls, first, prob_call>>

\* enumeration_ask: Q[val] = the value returned; on to the next val
AskStore ==
  /\ stack # <<>>
  /\ Top.fn = "enumeration_ask"
  /\ Top.pc = "store"
  /\ LET n == Len(stack)
     IN stack' = [stack EXCEPT ![n].Q = Put(@, Top.val, Top.ret),
                               ![n].val = FALSE,
                               ![n].pc = IF Top.val THEN "for" ELSE "norm"]
  /\ UNCHANGED <<op, query, variables, given, heap, result, calls, first, prob_call>>

\* enumeration_ask: total = Q[True] + Q[False] and the return
AskNormalize ==
  /\ stack # <<>>
  /\ Top.fn = "enumeration_ask"
  /\ Top.pc = "norm"
  /\ LET r == Normalize(Top.Q)
     IN IF Failed(r) THEN Raise(r) ELSE Return(heap, r.v)
  /\ UNCHANGED <<op, query, variables, given, calls, prob_call>>

\* enumerate_all: if not variables: return 1.0
EnumBase ==
  /\ stack # <<>>
  /\ Top.fn = "enumerate_all"
  /\ Top.pc = "entry"
  /\ Top.vars = <<>>
  /\ Return(heap, Lit_1_0)
  /\ UNCHANGED <<op, query, variables, given, calls, prob_call>>

\* enumerate_all: first in evidence; prob_of(first, evidence[first], evidence),
\* then the call enumerate_all(rest, evidence) on the same dict object
EnumObserved ==
  /\ stack # <<>>
  /\ Top.fn = "enumerate_all"
  /\ Top.pc = "entry"
  /\ Top.vars # <<>>
  /\ Head(Top.vars) \in DOMAIN heap[Top.ev]
  /\ LET n == Len(stack)
         evidence == heap[Top.ev]
         var == Head(Top.vars)
         pr == prob_of(var, evidence[var], evidence)
     IN /\ prob_call' = [node |-> var, value |-> evidence[var], assignment |-> evidence]
        /\ IF Failed(pr) THEN Raise(pr)
           ELSE /\ stack' = Append([stack EXCEPT ![n].pc = "call", ![n].cont = "mul",
                                                 ![n].p = pr.v],
                                   Frame("enumerate_all", Tail(Top.vars), Top.ev, evidence))
                /\ UNCHANGED <<heap, result, first>>
  /\ UNCHANGED <<op, query, variables, given, calls>>

\* enumerate_all: return prob_of(...) * the value returned
EnumObservedReturn ==
  /\ stack # <<>>
  /\ Top.fn = "enumerate_all"
  /\ Top.pc = "mul"
  /\ Return(heap, VMul(Top.p, Top.ret))
  /\ UNCHANGED <<op, query, variables, given, calls, prob_call>>

\* enumerate_all: first not in evidence; one turn of the loop over [True, False]:
\* new_evidence = dict(evidence); new_evidence[first] = val;
\* prob_of(first, val, new_evidence), then the call enumerate_all(rest, new_evidence)
EnumBranch ==
  /\ stack # <<>>
  /\ Top.fn = "enumerate_all"
  /\ \/ Top.pc = "entry" /\ Top.vars # <<>> /\ Head(Top.vars) \notin DOMAIN heap[Top.ev]
     \/ Top.pc = "for"
  /\ LET n == Len(stack)
         var == Head(Top.vars)
         val == IF Top.pc = "entry" THEN TRUE ELSE Top.val
         total == IF Top.pc = "entry" THEN Lit_0_0 ELSE Top.total
         c == dict_copy(heap, Top.ev)
         h == [c.heap EXCEPT ![c.id] = Put(@, var, val)]
         pr == prob_of(var, val, h[c.id])
     IN /\ prob_call' = [node |-> var, value |-> val, assignment |-> h[c.id]]
        /\ IF Failed(pr) THEN Raise(pr)
           ELSE /\ heap' = h
                /\ stack' = Append([stack EXCEPT ![n].pc = "call", ![n].cont = "acc",
                                                 ![n].p = pr.v, ![n].val = val,
                                                 ![n].total = total],
                                   Frame("enumerate_all", Tail(Top.vars), c.id, h[c.id]))
                /\ UNCHANGED <<result, first>>
  /\ UNCHANGED <<op, query, variables, given, calls>>

\* enumerate_all: total += prob_of(...) * the value returned, after val = True
EnumAccumulate ==
  /\ stack # <<>>
  /\ Top.fn = "enumerate_all"
  /\ Top.pc = "acc"
  /\ Top.val
  /\ LET n == Len(stack)
     IN stack' = [stack EXCEPT ![n].total = Accumulate(Top.total, Top.p, Top.ret),
                               ![n].val = FALSE,
                               ![n].pc = "for"]
  /\ UNCHANGED <<op, query, variables, given, heap, result, calls, first, prob_call>>

\* enumerate_all: total += prob_of(...) * the value returned, after val = False,
\* and return total
EnumReturnTotal ==
  /\ stack # <<>>
  /\ Top.fn = "enumerate_all"
  /\ Top.pc = "acc"
  /\ ~Top.val
  /\ Return(heap, Accumulate(Top.total, Top.p, Top.ret))
  /\ UNCHANGED <<op, query, variables, given, calls, prob_call>>

Next ==
  \/ Call
  \/ JointProb
  \/ AskExtend
  \/ AskStore
  \/ AskNormalize
  \/ EnumBase
  \/ EnumObserved
  \/ EnumObservedReturn
  \/ EnumBranch
  \/ EnumAccumulate
  \/ EnumReturnTotal

Spec == Init /\ [][Next]_vars

\* ---------------------------------------------------------------------
\* Sanity of the model: the stepwise calls and the functions agree
\* ---------------------------------------------------------------------
StepsMatchFunctions ==
  Done =>
    /\ op = "ask" => result = enumeration_ask(query, given)
    /\ op = "enum" => result = enumerate_all(variables, given)
    /\ op = "joint" => result = joint_prob(given)

\* ---------------------------------------------------------------------
\* Properties
\* ---------------------------------------------------------------------
\* |a - b| <= 1e-9 on floats
Near(a, b) ==
  LET diff == IF FCmp(a, b) >= 0 THEN FSub(a, b) ELSE FSub(b, a)
  IN FCmp(diff, Lit(1, 10^9).f) <= 0

\* the complete assignments that agree with e
Completions(e) == {a \in [NodeSet -> BOOLEAN] : \A k \in DOMAIN e : a[k] = e[k]}

\* the exact sum of joint_prob over the assignments of S
RECURSIVE SumJoint(_)
SumJoint(S) ==
  IF S = {} THEN Lit_0_0.x
  ELSE LET a == CHOOSE b \in S : TRUE
       IN RAdd(joint_prob(a).v.x, SumJoint(S \ {a}))

\* a query of the network under evidence over the network that leaves it out
AskInScope ==
  /\ op = "ask"
  /\ query \in NodeSet
  /\ DOMAIN given \subseteq NodeSet
  /\ query \notin DOMAIN given

\* C1: for a query q of the network and evidence e over the network without q
\* and of nonzero probability, enumeration_ask(q, e)[v] is, in exact
\* arithmetic, the sum of joint_prob over the complete assignments that agree
\* with e and have q = v, divided by the sum over those that agree with e.
C1_ExactPosterior ==
  (Done /\ AskInScope /\ SumJoint(Completions(given)).n # 0) =>
    /\ ~Failed(result)
    /\ \A v \in BOOLEAN :
         result.v[v].x = RDiv(SumJoint(Completions(Put(given, query, v))),
                              SumJoint(Completions(given)))

C1_Witness ==
  /\ Done
  /\ AskInScope
  /\ query = "Rain"
  /\ given = ("WetGrass" :> TRUE)
  /\ SumJoint(Completions(given)).n # 0
  /\ ~Failed(result)
  /\ result.v[TRUE].x = RDiv(SumJoint(Completions(Put(given, query, TRUE))),
                             SumJoint(Completions(given)))

\* enumeration_ask is about to normalize Q
AtNormalize == stack # <<>> /\ Top.fn = "enumeration_ask" /\ Top.pc = "norm"

\* C2 as amended: for evidence over the network and a query of the network not
\* in it, no division by zero occurs, and the distribution returned is
\* {True: 0.0, False: 0.0} when the unnormalized total is zero and otherwise
\* sums to 1 in exact arithmetic and to within 1e-9 of 1 as floats.
C2_Normalized ==
  [][(AtNormalize /\ AskInScope) =>
       LET total == VAdd(Top.Q[TRUE], Top.Q[FALSE]) IN
       /\ ~Failed(result')
       /\ VIsZero(total) => result'.v = [b \in BOOLEAN |-> Lit_0_0]
       /\ ~VIsZero(total) =>
            /\ RAdd(result'.v[TRUE].x, result'.v[FALSE].x) = Lit_1_0.x
            /\ Near(FAdd(result'.v[TRUE].f, result'.v[FALSE].f), Lit_1_0.f)]_vars

\* C2 as stated: the floats returned sum to exactly 1 whenever the total is nonzero.
C2_Original ==
  [][(AtNormalize /\ AskInScope) =>
       LET total == VAdd(Top.Q[TRUE], Top.Q[FALSE]) IN
       /\ ~Failed(result')
       /\ VIsZero(total) => result'.v = [b \in BOOLEAN |-> Lit_0_0]
       /\ ~VIsZero(total) =>
            FAdd(result'.v[TRUE].f, result'.v[FALSE].f) = Lit_1_0.f]_vars

C2_Witness ==
  /\ Done
  /\ AskInScope
  /\ ~Failed(result)
  /\ FAdd(result.v[TRUE].f, result.v[FALSE].f) # Lit_1_0.f
  /\ Near(FAdd(result.v[TRUE].f, result.v[FALSE].f), Lit_1_0.f)
  /\ RAdd(result.v[TRUE].x, result.v[FALSE].x) = Lit_1_0.x

\* enumerate_all(NODES, a with one variable removed), for a complete a
EnumReduced ==
  /\ op = "enum"
  /\ variables = NODES
  /\ Cardinality(DOMAIN given) = Len(NODES) - 1

\* joint_prob(a with X=True) + joint_prob(a with X=False) for the X that given leaves out
JointSum ==
  LET X == CHOOSE Y \in NodeSet : Y \notin DOMAIN given
  IN VAdd(joint_prob(Put(given, X, TRUE)).v, joint_prob(Put(given, X, FALSE)).v)

\* C3 as amended: for a complete assignment a and a variable X,
\* joint_prob(a with X=True) + joint_prob(a with X=False) equals
\* enumerate_all(NODES, a with X removed) in exact arithmetic, and the two
\* floats agree to within 1e-9.
C3_MarginalConsistency ==
  (Done /\ EnumReduced) =>
    /\ ~Failed(result)
    /\ result.v.x = JointSum.x
    /\ Near(result.v.f, JointSum.f)

\* C3 as stated: the two floats are equal.
C3_Original ==
  (Done /\ EnumReduced) => (~Failed(result) /\ result.v.f = JointSum.f)

C3_Witness ==
  /\ Done
  /\ EnumReduced
  /\ ~Failed(result)
  /\ result.v.x = JointSum.x
  /\ result.v.f # JointSum.f
  /\ Near(result.v.f, JointSum.f)

RainGivenWetGrass ==
  /\ Done
  /\ op = "ask"
  /\ query = "Rain"
  /\ given = ("WetGrass" :> TRUE)

\* C4 as amended: enumeration_ask("Rain", {"WetGrass": True})[True] is 0.7079
\* when rounded to four decimal places.
C4_RainPosterior ==
  RainGivenWetGrass => (~Failed(result) /\ Scaled(result.v[TRUE].f, 4) = 7079)

\* C4 as stated: the value rounds to 0.7577.
C4_Original ==
  RainGivenWetGrass => (~Failed(result) /\ Scaled(result.v[TRUE].f, 4) = 7577)

C4_Witness ==
  /\ RainGivenWetGrass
  /\ calls = 1
  /\ ~Failed(result)
  /\ Scaled(result.v[TRUE].f, 4) = 7079

JointOfExample ==
  /\ Done
  /\ op = "joint"
  /\ given = [Cloudy |-> TRUE, Sprinkler |-> FALSE, Rain |-> TRUE, WetGrass |-> TRUE]

\* C5 as amended: joint_prob({Cloudy: True, Sprinkler: False, Rain: True,
\* WetGrass: True}) is 0.32400000 when rounded to eight decimal places.
C5_JointExample ==
  JointOfExample => (~Failed(result) /\ Scaled(result.v.f, 8) = 32400000)

\* C5 as stated: the value rounds to 0.00356400.
C5_Original ==
  JointOfExample => (~Failed(result) /\ Scaled(result.v.f, 8) = 356400)

C5_Witness ==
  /\ JointOfExample
  /\ calls = 1
  /\ ~Failed(result)
  /\ Scaled(result.v.f, 8) = 32400000

\* C6: a call of enumeration_ask whose query, or one of whose evidence keys,
\* is not a variable of the network ends in an unknown-variable error and
\* returns no distribution.
C6_UnknownVariable ==
  (Done /\ op = "ask" /\ (query \notin NodeSet \/ ~(DOMAIN given \subseteq NodeSet))) =>
    result.exc = "UnknownVariableError"

\* every parent of each variable of vs is in e or earlier in vs
ParentsResolved(vs, e) ==
  \A i \in 1..Len(vs) : ParentsOf(vs[i]) \subseteq (DOMAIN e \cup {vs[j] : j \in 1..(i - 1)})

\* C7 as amended: for a permutation of the four nodes as variables and evidence
\* over the network, enumerate_all(variables, evidence) completes without a
\* missing-parent failure exactly when every parent of each variable is in the
\* evidence or earlier in the list, and raises KeyError otherwise; when it
\* completes, its value equals that of the order NODES in exact arithmetic,
\* and the two floats agree to within 1e-9.
C7_OrderOfVariables ==
  (Done /\ op = "enum") =>
    IF ParentsResolved(variables, given)
    THEN /\ ~Failed(result)
         /\ result.v.x = enumerate_all(NODES, given).v.x
         /\ Near(result.v.f, enumerate_all(NODES, given).v.f)
    ELSE result = KeyError

\* C7 as stated: every order completes and returns the value of the order NODES.
C7_Original ==
  (Done /\ op = "enum") => (~Failed(result) /\ result = enumerate_all(NODES, given))

C7_Witness ==
  /\ Done
  /\ op = "enum"
  /\ variables # NODES
  /\ DOMAIN given # NodeSet
  /\ ParentsResolved(variables, given)
  /\ ~Failed(result)
  /\ result.v.x = enumerate_all(NODES, given).v.x
  /\ result.v.f # enumerate_all(NODES, given).v.f

\* C8: with the list NODES, for a query of the network and evidence over the
\* network, the assignment of every prob_of call reached during
\* enumeration_ask has a value for every parent of the node, and no
\* missing-parent failure occurs.
C8_NoMissingParent ==
  (op = "ask" /\ query \in NodeSet /\ DOMAIN given \subseteq NodeSet) =>
    /\ result.exc # "KeyError"
    /\ prob_call.node # "" => ParentsOf(prob_call.node) \subseteq DOMAIN prob_call.assignment

C8_Witness ==
  /\ op = "ask"
  /\ query = "Cloudy"
  /\ given = EmptyDict
  /\ stack # <<>>
  /\ prob_call.node = "WetGrass"
  /\ ParentsOf(prob_call.node) \subseteq DOMAIN prob_call.assignment

\* C9: enumeration_ask and enumerate_all never change their inputs: at every
\* step the caller's dict has the content the caller gave it, the evidence of
\* every call in progress has the content it had at the call, every call works
\* on the tail of its caller's list and on its caller's evidence extended by
\* at most the caller's first variable with the value of the current turn, and
\* the same call made again returns the same outcome.
C9_InputsUnchanged ==
  /\ heap[1] = given
  /\ \A i \in 1..Len(stack) : heap[stack[i].ev] = stack[i].snap
  /\ (stack # <<>> /\ op = "enum") => (stack[1].vars = variables /\ stack[1].snap = given)
  /\ \A i \in 1..(Len(stack) - 1) :
       IF stack[i].fn = "enumeration_ask"
       THEN /\ stack[i + 1].vars = NODES
            /\ stack[i + 1].snap = Put(given, query, stack[i].val)
       ELSE /\ stack[i + 1].vars = Tail(stack[i].vars)
            /\ stack[i + 1].snap =
                 IF stack[i].cont = "acc"
                 THEN Put(stack[i].snap, Head(stack[i].vars), stack[i].val)
                 ELSE stack[i].snap
  /\ (Done /\ calls > 1) => result = first

C9_Witness ==
  /\ calls > 1
  /\ heap[1] = given
  /\ \E i \in 1..(Len(stack) - 1) :
       /\ stack[i].fn = "enumerate_all"
       /\ stack[i].cont = "acc"
       /\ ~stack[i].val
       /\ i > 1
       /\ stack[i + 1].snap = Put(stack[i].snap, Head(stack[i].vars), FALSE)
       /\ heap[stack[i].ev] = stack[i].snap

\* C10: when the query is already in the evidence, enumeration_ask raises no
\* error and overwrites the evidence value of the query: its result is that of
\* enumeration_ask for the evidence with the entry of the query removed.
C10_QueryInEvidence ==
  (Done /\ op = "ask" /\ query \in DOMAIN given) =>
    /\ ~Failed(result)
    /\ result = enumeration_ask(query, Remove(given, query))

C10_Witness ==
  /\ Done
  /\ op = "ask"
  /\ query = "Rain"
  /\ given = [Rain |-> FALSE, WetGrass |-> TRUE]
  /\ ~Failed(result)
  /\ result = enumeration_ask(query, Remove(given, query))
  /\ ~FIsZero(result.v[TRUE].f)

====
